---- MODULE Spec2Model ----
(***************************************************************************)
(* Model of the T-shirt store server (src/server.js): the in-memory data   *)
(* store `db` (a catalog of products and one global cart) and the cart     *)
(* route handlers add, remove, update and checkout that couple product     *)
(* stock with the quantities held by the cart.                             *)
(***************************************************************************)
EXTENDS Integers, Sequences, FiniteSets, TLC

\* ------------------------------------------------------------------ bounds
\* Largest stock a product is loaded with (the generator draws 0..100), and
\* the most units the generated catalog holds in all.
MaxStock == 5
\* Largest quantity a request body carries.
MaxQty == 3
\* Largest stock a product is loaded with when handlers run statement by statement.
StepStock == 2

\* ------------------------------------------------------------ the catalog
\* Ids of the products generated at start-up, and an id that is in no catalog.
Products == {"X", "Y"}
UnknownId == "Z"
RequestIds == Products \cup {UnknownId}

\* Order ids faker.string.uuid() can return.
Uuids == {"u1", "u2"}
NoOrderId == "none"
NoId == "none"

\* Connections with a request in flight (one request per connection).
Conns == {"c1", "c2"}

\* Immutable attributes of the generated products (price in cents).
\* Products of the larger catalog the list routes are run on, in the order
\* the generation loop inserted them into db.products.
KeyOrder == <<"X", "Y", "W">>
ListProducts == {KeyOrder[i] : i \in 1..Len(KeyOrder)}

Name == [p \in ListProducts |-> IF p = "X" THEN "Small T-shirt" ELSE "Sleek T-shirt"]
Color == [p \in ListProducts |-> IF p = "Y" THEN "blue" ELSE "red"]
Size == [p \in ListProducts |-> IF p = "Y" THEN "XL" ELSE "M"]
Price == [p \in ListProducts |->
            CASE p = "X" -> 1099 [] p = "Y" -> 1999 [] p = "W" -> 4999]

\* One generated product.
product(id, stock) ==
  [id |-> id, name |-> Name[id], color |-> Color[id], size |-> Size[id],
   price |-> Price[id], stock |-> stock]

\* The data store right after the generation loop: every product present,
\* the global cart empty.
NewDb(stocks) ==
  [products |-> [p \in Products |-> product(p, stocks[p])],
   cart |-> [items |-> << >>]]

VARIABLES
  db,      \* the data store: db.products (id -> product), db.cart.items
  loaded,  \* history: the stock each product was generated with
  sold,    \* history: units of each product cleared from the cart by checkouts
  last,    \* the last request served and the reply sent for it
  pre,     \* history: the data store as the last request found it
  inflight \* per connection: the handler activation it is running, if any

vars == <<db, loaded, sold, last, pre, inflight>>

\* ---------------------------------------------------------------- replies
\* A handler's return value, sent with status 200.
Ok(msg) == [statusCode |-> 200, message |-> msg, orderId |-> NoOrderId, total |-> 0]

\* The error handler: a thrown Error or a validation failure is sent as 400.
BadRequest(msg) == [statusCode |-> 400, message |-> msg, orderId |-> NoOrderId, total |-> 0]

\* throw new Error(msg) inside a handler: the store is left as it is.
Throw(d, msg) == [db |-> d, reply |-> BadRequest(msg)]

\* A handler that returns normally with store d.
Return(d, reply) == [db |-> d, reply |-> reply]

\* ------------------------------------------------------------ cart helpers
\* Array.prototype.findIndex on the cart: position of the first line for
\* productId, 0 when there is none (JavaScript's -1).
findIndex(items, productId) ==
  IF \E i \in 1..Len(items) : items[i].productId = productId
  THEN CHOOSE i \in 1..Len(items) :
         /\ items[i].productId = productId
         /\ \A j \in 1..(i - 1) : items[j].productId # productId
  ELSE 0

\* Array.prototype.splice(itemIndex, 1).
splice(items, itemIndex) ==
  [i \in 1..(Len(items) - 1) |-> IF i < itemIndex THEN items[i] ELSE items[i + 1]]

\* Sum of the quantities of all cart lines of product p.
RECURSIVE Held(_, _)
Held(items, p) ==
  IF items = << >> THEN 0
  ELSE (IF Head(items).productId = p THEN Head(items).quantity ELSE 0)
       + Held(Tail(items), p)

\* Stock of product p in store d.
Stock(d, p) == d.products[p].stock

\* Store d with the stock of product p set to s and the cart lines to items.
Put(d, p, s, items) ==
  [products |-> [d.products EXCEPT ![p].stock = s], cart |-> [items |-> items]]

\* ---------------------------------------------------------------- handlers
\* cartItemSchema with minimum 0 for quantity.
cartItemValid_Minimum0(quantity) == quantity >= 0

\* cartItemSchema: quantity is an integer with minimum 1.
cartItemValid(quantity) == quantity >= 1

\* add with the first stock test off by one (stock + 1 < quantity).
add_OffByOne(d, productId, quantity) ==
  IF productId \notin DOMAIN d.products THEN Throw(d, "Product not found")
  ELSE IF Stock(d, productId) + 1 < quantity THEN Throw(d, "Insufficient stock")
  ELSE LET items == d.cart.items
           i == findIndex(items, productId)
       IN IF i # 0
          THEN Return(Put(d, productId, Stock(d, productId) - quantity,
                          [items EXCEPT ![i].quantity = @ + quantity]),
                      Ok("Item added to cart"))
          ELSE Return(Put(d, productId, Stock(d, productId) - quantity,
                          Append(items, [productId |-> productId, quantity |-> quantity])),
                      Ok("Item added to cart"))

\* add that appends the new line before it tests the stock.
add_PushFirst(d, productId, quantity) ==
  IF productId \notin DOMAIN d.products THEN Throw(d, "Product not found")
  ELSE LET items == d.cart.items
           i == findIndex(items, productId)
           pushed == IF i # 0 THEN items
                     ELSE Append(items, [productId |-> productId, quantity |-> quantity])
       IN IF Stock(d, productId) < quantity
          THEN Throw([d EXCEPT !.cart.items = pushed], "Insufficient stock")
          ELSE IF i # 0
          THEN IF Stock(d, productId) < quantity + items[i].quantity
               THEN Throw(d, "Insufficient stock")
               ELSE Return(Put(d, productId, Stock(d, productId) - quantity,
                               [items EXCEPT ![i].quantity = @ + quantity]),
                           Ok("Item added to cart"))
          ELSE Return(Put(d, productId, Stock(d, productId) - quantity, pushed),
                      Ok("Item added to cart"))

\* add that pushes a new line even when the cart has one for the product.
add_AlwaysPush(d, productId, quantity) ==
  IF productId \notin DOMAIN d.products THEN Throw(d, "Product not found")
  ELSE IF Stock(d, productId) < quantity THEN Throw(d, "Insufficient stock")
  ELSE Return(Put(d, productId, Stock(d, productId) - quantity,
                  Append(d.cart.items, [productId |-> productId, quantity |-> quantity])),
              Ok("Item added to cart"))

\* add without the test that the product exists.
add_NoLookup(d, productId, quantity) ==
  IF productId \notin DOMAIN d.products
  THEN Return([d EXCEPT !.cart.items =
                 Append(@, [productId |-> productId, quantity |-> quantity])],
              Ok("Item added to cart"))
  ELSE IF Stock(d, productId) < quantity THEN Throw(d, "Insufficient stock")
  ELSE LET items == d.cart.items
           i == findIndex(items, productId)
       IN IF i # 0
          THEN IF Stock(d, productId) < quantity + items[i].quantity
               THEN Throw(d, "Insufficient stock")
               ELSE Return(Put(d, productId, Stock(d, productId) - quantity,
                               [items EXCEPT ![i].quantity = @ + quantity]),
                           Ok("Item added to cart"))
          ELSE Return(Put(d, productId, Stock(d, productId) - quantity,
                          Append(items, [productId |-> productId, quantity |-> quantity])),
                      Ok("Item added to cart"))

\* add that replaces an existing line by a new one at the end of the cart.
add_MoveToEnd(d, productId, quantity) ==
  IF productId \notin DOMAIN d.products THEN Throw(d, "Product not found")
  ELSE IF Stock(d, productId) < quantity THEN Throw(d, "Insufficient stock")
  ELSE LET items == d.cart.items
           i == findIndex(items, productId)
       IN IF i # 0
          THEN IF Stock(d, productId) < quantity + items[i].quantity
               THEN Throw(d, "Insufficient stock")
               ELSE Return(Put(d, productId, Stock(d, productId) - quantity,
                               Append([j \in 1..(Len(items) - 1) |->
                                         IF j < i THEN items[j] ELSE items[j + 1]],
                                      [productId |-> productId,
                                       quantity |-> items[i].quantity + quantity])),
                           Ok("Item added to cart"))
          ELSE Return(Put(d, productId, Stock(d, productId) - quantity,
                          Append(items, [productId |-> productId, quantity |-> quantity])),
                      Ok("Item added to cart"))

\* POST /cart/add
add(d, productId, quantity) ==
  IF productId \notin DOMAIN d.products THEN Throw(d, "Product not found")
  ELSE IF Stock(d, productId) < quantity THEN Throw(d, "Insufficient stock")
  ELSE LET items == d.cart.items
           i == findIndex(items, productId)
       IN IF i # 0
          THEN IF Stock(d, productId) < quantity + items[i].quantity
               THEN Throw(d, "Insufficient stock")
               ELSE Return(Put(d, productId, Stock(d, productId) - quantity,
                               [items EXCEPT ![i].quantity = @ + quantity]),
                           Ok("Item added to cart"))
          ELSE Return(Put(d, productId, Stock(d, productId) - quantity,
                          Append(items, [productId |-> productId, quantity |-> quantity])),
                      Ok("Item added to cart"))

\* remove that deletes the line without giving its quantity back to the stock.
remove_NoRestore(d, productId) ==
  LET items == d.cart.items
      itemIndex == findIndex(items, productId)
  IN IF itemIndex = 0 THEN Throw(d, "Item not in cart")
     ELSE Return(Put(d, productId, Stock(d, productId), splice(items, itemIndex)),
                 Ok("Item removed from cart"))

\* remove that gives back one unit instead of the line's quantity.
remove_OneUnit(d, productId) ==
  LET items == d.cart.items
      itemIndex == findIndex(items, productId)
  IN IF itemIndex = 0 THEN Throw(d, "Item not in cart")
     ELSE Return(Put(d, productId, Stock(d, productId) + 1, splice(items, itemIndex)),
                 Ok("Item removed from cart"))

\* POST /cart/remove
remove(d, productId) ==
  LET items == d.cart.items
      itemIndex == findIndex(items, productId)
  IN IF itemIndex = 0 THEN Throw(d, "Item not in cart")
     ELSE Return(Put(d, productId, Stock(d, productId) + items[itemIndex].quantity,
                     splice(items, itemIndex)),
                 Ok("Item removed from cart"))

\* update that creates the line when the cart has none for the product.
update_Upsert(d, productId, quantity) ==
  IF productId \notin DOMAIN d.products THEN Throw(d, "Product not found")
  ELSE LET items == d.cart.items
           i == findIndex(items, productId)
       IN IF i = 0
          THEN IF Stock(d, productId) < quantity THEN Throw(d, "Insufficient stock")
               ELSE Return(Put(d, productId, Stock(d, productId) - quantity,
                               Append(items, [productId |-> productId,
                                              quantity |-> quantity])),
                           Ok("Cart updated"))
          ELSE LET stockDiff == quantity - items[i].quantity
               IN IF Stock(d, productId) < stockDiff
                  THEN Throw(d, "Insufficient stock")
                  ELSE Return(Put(d, productId, Stock(d, productId) - stockDiff,
                                  [items EXCEPT ![i].quantity = quantity]),
                              Ok("Cart updated"))

\* update that tests the stock against the new quantity instead of the difference.
update_AbsoluteTest(d, productId, quantity) ==
  IF productId \notin DOMAIN d.products THEN Throw(d, "Product not found")
  ELSE LET items == d.cart.items
           i == findIndex(items, productId)
       IN IF i = 0 THEN Throw(d, "Item not in cart")
          ELSE LET stockDiff == quantity - items[i].quantity
               IN IF Stock(d, productId) < quantity
                  THEN Throw(d, "Insufficient stock")
                  ELSE Return(Put(d, productId, Stock(d, productId) - stockDiff,
                                  [items EXCEPT ![i].quantity = quantity]),
                              Ok("Cart updated"))

\* update that tests the stock with <= instead of <.
update_StrictTest(d, productId, quantity) ==
  IF productId \notin DOMAIN d.products THEN Throw(d, "Product not found")
  ELSE LET items == d.cart.items
           i == findIndex(items, productId)
       IN IF i = 0 THEN Throw(d, "Item not in cart")
          ELSE LET stockDiff == quantity - items[i].quantity
               IN IF Stock(d, productId) <= stockDiff
                  THEN Throw(d, "Insufficient stock")
                  ELSE Return(Put(d, productId, Stock(d, productId) - stockDiff,
                                  [items EXCEPT ![i].quantity = quantity]),
                              Ok("Cart updated"))

\* POST /cart/update
update(d, productId, quantity) ==
  IF productId \notin DOMAIN d.products THEN Throw(d, "Product not found")
  ELSE LET items == d.cart.items
           i == findIndex(items, productId)
       IN IF i = 0 THEN Throw(d, "Item not in cart")
          ELSE LET stockDiff == quantity - items[i].quantity
               IN IF Stock(d, productId) < stockDiff
                  THEN Throw(d, "Insufficient stock")
                  ELSE Return(Put(d, productId, Stock(d, productId) - stockDiff,
                                  [items EXCEPT ![i].quantity = quantity]),
                              Ok("Cart updated"))

\* The reduce of the checkout handler: sum of price * quantity over the lines.
RECURSIVE cartTotal(_, _)
cartTotal(d, items) ==
  IF items = << >> THEN 0
  ELSE d.products[Head(items).productId].price * Head(items).quantity
       + cartTotal(d, Tail(items))

\* checkout that gives the cart's quantities back to the stock.
checkout_Restock(d, uuid) ==
  IF Len(d.cart.items) = 0 THEN Throw(d, "Cart is empty")
  ELSE Return([products |-> [p \in DOMAIN d.products |->
                               [d.products[p] EXCEPT
                                  !.stock = @ + Held(d.cart.items, p)]],
               cart |-> [items |-> << >>]],
              [statusCode |-> 200, message |-> "", orderId |-> uuid,
               total |-> cartTotal(d, d.cart.items)])

\* checkout without the empty-cart test.
checkout_NoEmptyTest(d, uuid) ==
  Return([d EXCEPT !.cart.items = << >>],
         [statusCode |-> 200, message |-> "", orderId |-> uuid,
          total |-> cartTotal(d, d.cart.items)])

\* POST /cart/checkout, with uuid the value faker.string.uuid() returns.
checkout(d, uuid) ==
  IF Len(d.cart.items) = 0 THEN Throw(d, "Cart is empty")
  ELSE Return([d EXCEPT !.cart.items = << >>],
              [statusCode |-> 200, message |-> "", orderId |-> uuid,
               total |-> cartTotal(d, d.cart.items)])

\* ------------------------------------------------------------------ actions
Request(op, productId, quantity, reply) ==
  [op |-> op, productId |-> productId, quantity |-> quantity, reply |-> reply]

\* A connection with no handler running.
Idle ==
  [pc |-> "idle", op |-> "none", productId |-> NoId, quantity |-> 0,
   index |-> 0, stockDiff |-> 0, total |-> 0]

\* Units in a catalog loaded with the given stocks.
RECURSIVE Units(_, _)
Units(stocks, ps) ==
  IF ps = {} THEN 0
  ELSE LET p == CHOOSE x \in ps : TRUE IN stocks[p] + Units(stocks, ps \ {p})

\* The state once the server listens: the generated catalog, an empty cart.
Init ==
  /\ loaded \in [Products -> 0..MaxStock]
  /\ Units(loaded, Products) <= MaxStock
  /\ db = NewDb(loaded)
  /\ sold = [p \in Products |-> 0]
  /\ last = Request("listen", NoId, 0, Ok(""))
  /\ pre = db
  /\ inflight = [c \in Conns |-> Idle]

\* One request served: the handler's outcome r becomes the store and the reply.
Serve(op, productId, quantity, r) ==
  /\ db' = r.db
  /\ last' = Request(op, productId, quantity, r.reply)
  /\ pre' = db
  /\ UNCHANGED <<loaded, inflight>>

\* The route's body schema runs before the handler: a body that fails
\* cartItemSchema is answered by the error handler and the handler never runs.
validated(d, quantity, r) ==
  IF cartItemValid(quantity) THEN r ELSE Throw(d, "body/quantity must be >= 1")

Add ==
  \E productId \in RequestIds, quantity \in 0..MaxQty :
    /\ Serve("add", productId, quantity,
             validated(db, quantity, add(db, productId, quantity)))
    /\ UNCHANGED sold

Remove ==
  \E productId \in RequestIds :
    /\ Serve("remove", productId, 0, remove(db, productId))
    /\ UNCHANGED sold

Update ==
  \E productId \in RequestIds, quantity \in 0..MaxQty :
    /\ Serve("update", productId, quantity,
             validated(db, quantity, update(db, productId, quantity)))
    /\ UNCHANGED sold

Checkout ==
  \E uuid \in Uuids :
    LET r == checkout(db, uuid)
    IN /\ Serve("checkout", NoId, 0, r)
       /\ sold' = [p \in Products |->
                     sold[p] + Held(db.cart.items, p) - Held(r.db.cart.items, p)]

Next == Add \/ Remove \/ Update \/ Checkout

Spec == Init /\ [][Next]_vars

\* ------------------------------------------- handlers, statement by statement
\* Requests of several connections are in flight at once; each handler body
\* is run one statement group at a time by the single JavaScript thread.

\* yields with an await between the cart write and the stock write of add:
\* the thread is handed to other callbacks there.
yields_AwaitInAdd(pc) == pc = "add_stock"

\* Whether a handler suspended at pc has given up the thread: the handler
\* bodies are async functions without any await, so each runs from its first
\* statement to its return or throw before another callback is run.
yields(pc) == FALSE

\* Connection c's handler may run its next statement.
CanRun(c) ==
  \A o \in Conns \ {c} : inflight[o].pc = "idle" \/ yields(inflight[o].pc)

\* No reply sent yet.
Pending == [statusCode |-> 0, message |-> "", orderId |-> NoOrderId, total |-> 0]

EntryPc == [op \in {"add", "remove", "update", "checkout"} |->
              CASE op = "add" -> "add_check"
                [] op = "remove" -> "remove_find"
                [] op = "update" -> "update_check"
                [] op = "checkout" -> "checkout_check"]

\* The framework invokes the route's handler for a validated request of c.
Begin(c) ==
  \E op \in DOMAIN EntryPc, productId \in RequestIds, quantity \in 1..MaxQty :
    /\ inflight[c].pc = "idle"
    /\ CanRun(c)
    \* checkout takes no body and remove no quantity: one choice stands for all
    /\ op = "checkout" => (productId = UnknownId /\ quantity = 1)
    /\ op = "remove" => quantity = 1
    /\ LET id == IF op = "checkout" THEN NoId ELSE productId
           q == IF op \in {"add", "update"} THEN quantity ELSE 0
       IN /\ inflight' = [inflight EXCEPT ![c] =
                            [Idle EXCEPT !.pc = EntryPc[op], !.op = op,
                                         !.productId = id, !.quantity = q]]
          /\ last' = Request(op, id, q, Pending)
    /\ pre' = db
    /\ UNCHANGED <<db, loaded, sold>>

\* c's handler is at pc and the thread is free to run it.
At(c, pc) == inflight[c].pc = pc /\ CanRun(c)

\* c's handler goes on to pc.
Goto(c, pc) ==
  /\ inflight' = [inflight EXCEPT ![c].pc = pc]
  /\ UNCHANGED last

\* c's handler returns or throws: the reply is sent.
Finish(c, reply) ==
  /\ inflight' = [inflight EXCEPT ![c] = Idle]
  /\ last' = Request(inflight[c].op, inflight[c].productId, inflight[c].quantity, reply)

\* add: the product lookup and the first stock test.
AddCheck(c) ==
  /\ At(c, "add_check")
  /\ LET t == inflight[c]
     IN IF t.productId \notin DOMAIN db.products
        THEN Finish(c, BadRequest("Product not found"))
        ELSE IF Stock(db, t.productId) < t.quantity
        THEN Finish(c, BadRequest("Insufficient stock"))
        ELSE Goto(c, "add_cart")
  /\ UNCHANGED <<db, loaded, sold, pre>>

\* add: the existing line grows, or a new line is pushed.
AddCart(c) ==
  /\ At(c, "add_cart")
  /\ LET t == inflight[c]
         items == db.cart.items
         i == findIndex(items, t.productId)
     IN IF i # 0
        THEN IF Stock(db, t.productId) < t.quantity + items[i].quantity
             THEN Finish(c, BadRequest("Insufficient stock")) /\ UNCHANGED db
             ELSE /\ db' = [db EXCEPT !.cart.items[i].quantity = @ + t.quantity]
                  /\ Goto(c, "add_stock")
        ELSE /\ db' = [db EXCEPT !.cart.items =
                         Append(@, [productId |-> t.productId, quantity |-> t.quantity])]
             /\ Goto(c, "add_stock")
  /\ UNCHANGED <<loaded, sold, pre>>

\* add: product.stock -= quantity, and the return.
AddStock(c) ==
  /\ At(c, "add_stock")
  /\ LET t == inflight[c]
     IN db' = [db EXCEPT !.products[t.productId].stock = @ - t.quantity]
  /\ Finish(c, Ok("Item added to cart"))
  /\ UNCHANGED <<loaded, sold, pre>>

\* remove: findIndex and the test for -1.
RemoveFind(c) ==
  /\ At(c, "remove_find")
  /\ LET itemIndex == findIndex(db.cart.items, inflight[c].productId)
     IN IF itemIndex = 0
        THEN Finish(c, BadRequest("Item not in cart"))
        ELSE /\ inflight' = [inflight EXCEPT ![c].pc = "remove_stock",
                                             ![c].index = itemIndex]
             /\ UNCHANGED last
  /\ UNCHANGED <<db, loaded, sold, pre>>

\* remove: product.stock += db.cart.items[itemIndex].quantity.
RemoveStock(c) ==
  /\ At(c, "remove_stock")
  /\ LET t == inflight[c]
     IN db' = [db EXCEPT !.products[t.productId].stock =
                 @ + db.cart.items[t.index].quantity]
  /\ Goto(c, "remove_splice")
  /\ UNCHANGED <<loaded, sold, pre>>

\* remove: the splice, and the return.
RemoveSplice(c) ==
  /\ At(c, "remove_splice")
  /\ db' = [db EXCEPT !.cart.items = splice(@, inflight[c].index)]
  /\ Finish(c, Ok("Item removed from cart"))
  /\ UNCHANGED <<loaded, sold, pre>>

\* update: the lookups, stockDiff and the stock test.
UpdateCheck(c) ==
  /\ At(c, "update_check")
  /\ LET t == inflight[c]
         i == findIndex(db.cart.items, t.productId)
     IN IF t.productId \notin DOMAIN db.products
        THEN Finish(c, BadRequest("Product not found"))
        ELSE IF i = 0
        THEN Finish(c, BadRequest("Item not in cart"))
        ELSE LET stockDiff == t.quantity - db.cart.items[i].quantity
             IN IF Stock(db, t.productId) < stockDiff
                THEN Finish(c, BadRequest("Insufficient stock"))
                ELSE /\ inflight' = [inflight EXCEPT ![c].pc = "update_stock",
                                                     ![c].index = i,
                                                     ![c].stockDiff = stockDiff]
                     /\ UNCHANGED last
  /\ UNCHANGED <<db, loaded, sold, pre>>

\* update: product.stock -= stockDiff.
UpdateStock(c) ==
  /\ At(c, "update_stock")
  /\ LET t == inflight[c]
     IN db' = [db EXCEPT !.products[t.productId].stock = @ - t.stockDiff]
  /\ Goto(c, "update_line")
  /\ UNCHANGED <<loaded, sold, pre>>

\* update: existingItem.quantity = quantity, and the return.
UpdateLine(c) ==
  /\ At(c, "update_line")
  /\ LET t == inflight[c]
     IN db' = [db EXCEPT !.cart.items[t.index].quantity = t.quantity]
  /\ Finish(c, Ok("Cart updated"))
  /\ UNCHANGED <<loaded, sold, pre>>

\* checkout: the empty-cart test and the total.
CheckoutCheck(c) ==
  /\ At(c, "checkout_check")
  /\ IF Len(db.cart.items) = 0
     THEN Finish(c, BadRequest("Cart is empty"))
     ELSE /\ inflight' = [inflight EXCEPT ![c].pc = "checkout_clear",
                                          ![c].total = cartTotal(db, db.cart.items)]
          /\ UNCHANGED last
  /\ UNCHANGED <<db, loaded, sold, pre>>

\* checkout: the order id, db.cart.items = [], and the return.
CheckoutClear(c) ==
  /\ At(c, "checkout_clear")
  /\ \E uuid \in Uuids :
       Finish(c, [statusCode |-> 200, message |-> "", orderId |-> uuid,
                  total |-> inflight[c].total])
  /\ db' = [db EXCEPT !.cart.items = << >>]
  /\ sold' = [p \in Products |-> sold[p] + Held(db.cart.items, p)]
  /\ UNCHANGED <<loaded, pre>>

InitSteps ==
  /\ Init
  /\ \A p \in Products : loaded[p] <= StepStock

NextSteps ==
  \E c \in Conns :
    \/ Begin(c)
    \/ AddCheck(c) \/ AddCart(c) \/ AddStock(c)
    \/ RemoveFind(c) \/ RemoveStock(c) \/ RemoveSplice(c)
    \/ UpdateCheck(c) \/ UpdateStock(c) \/ UpdateLine(c)
    \/ CheckoutCheck(c) \/ CheckoutClear(c)

SpecSteps == InitSteps /\ [][NextSteps]_vars

\* ------------------------------------------------------------- list routes
\* Largest offset and largest limit a list query carries.
MaxOffset == 3
MaxLimit == 2

\* A query parameter that is not given (undefined), and a price not given.
Absent == "undefined"
NoPrice == -1

\* The characters of the strings in use.
Chars(s) ==
  CASE s = "" -> << >>
    [] s = "red" -> <<"r", "e", "d">>
    [] s = "RED" -> <<"R", "E", "D">>
    [] s = "blue" -> <<"b", "l", "u", "e">>
    [] s = "SLEEK" -> <<"S", "L", "E", "E", "K">>
    [] s = "Small T-shirt" ->
         <<"S", "m", "a", "l", "l", " ", "T", "-", "s", "h", "i", "r", "t">>
    [] s = "Sleek T-shirt" ->
         <<"S", "l", "e", "e", "k", " ", "T", "-", "s", "h", "i", "r", "t">>

\* The lower-case form of one character.
toLowerChar(c) ==
  CASE c = "A" -> "a"
    [] c = "B" -> "b"
    [] c = "C" -> "c"
    [] c = "D" -> "d"
    [] c = "E" -> "e"
    [] c = "F" -> "f"
    [] c = "G" -> "g"
    [] c = "H" -> "h"
    [] c = "I" -> "i"
    [] c = "J" -> "j"
    [] c = "K" -> "k"
    [] c = "L" -> "l"
    [] c = "M" -> "m"
    [] c = "N" -> "n"
    [] c = "O" -> "o"
    [] c = "P" -> "p"
    [] c = "Q" -> "q"
    [] c = "R" -> "r"
    [] c = "S" -> "s"
    [] c = "T" -> "t"
    [] c = "U" -> "u"
    [] c = "V" -> "v"
    [] c = "W" -> "w"
    [] c = "X" -> "x"
    [] c = "Y" -> "y"
    [] c = "Z" -> "z"
    [] OTHER -> c

\* String.prototype.toLowerCase, on the characters of a string.
toLowerCase(cs) == [i \in 1..Len(cs) |-> toLowerChar(cs[i])]

\* The strings in use, and the lower-case characters of each (toLowerCase
\* applied once per string).
Texts == {"", "red", "RED", "blue", "SLEEK", "Small T-shirt", "Sleek T-shirt"}
lowered == [s \in Texts |-> toLowerCase(Chars(s))]

\* String.prototype.includes, on the characters of two strings.
includes(cs, part) ==
  \E k \in 0..(Len(cs) - Len(part)) :
    \A i \in 1..Len(part) : cs[k + i] = part[i]

\* JavaScript truthiness of a string parameter and of a number parameter.
truthyText(s) == s # Absent /\ s # ""
truthyNumber(n) == n # NoPrice /\ n # 0

Min(a, b) == IF a < b THEN a ELSE b
Max(a, b) == IF a > b THEN a ELSE b

\* Array.prototype.slice with an end one too far.
slice_EndInclusive(arr, start, end) ==
  [i \in 1..Max(0, Min(end + 1, Len(arr)) - start) |-> arr[start + i]]

\* Array.prototype.slice(start, end) for start, end >= 0.
slice(arr, start, end) ==
  [i \in 1..Max(0, Min(end, Len(arr)) - start) |-> arr[start + i]]

\* Array.from(db.products.values()): the products in insertion order.
values(d) ==
  LET keys == SelectSeq(KeyOrder, LAMBDA k : k \in DOMAIN d.products)
  IN [i \in 1..Len(keys) |-> d.products[keys[i]]]

\* The four filters of the product list, applied in turn.
filtered(d, query) ==
  LET byName == IF truthyText(query.name)
                THEN SelectSeq(values(d), LAMBDA p :
                       includes(lowered[p.name], lowered[query.name]))
                ELSE values(d)
      byColor == IF truthyText(query.color)
                 THEN SelectSeq(byName, LAMBDA p :
                        lowered[p.color] = lowered[query.color])
                 ELSE byName
      bySize == IF truthyText(query.size)
                THEN SelectSeq(byColor, LAMBDA p : p.size = query.size)
                ELSE byColor
  IN IF truthyNumber(query.price)
     THEN SelectSeq(bySize, LAMBDA p : p.price <= query.price)
     ELSE bySize

\* The reply of a list route.
Page(items, total) ==
  [statusCode |-> 200, message |-> "", orderId |-> NoOrderId,
   total |-> total, items |-> items]

\* GET /product/list
productList(d, query) ==
  LET products == filtered(d, query)
  IN Return(d, Page(slice(products, query.offset, query.offset + query.limit),
                    Len(products)))

\* GET /cart/list
cartList(d, query) ==
  LET page == slice(d.cart.items, query.offset, query.offset + query.limit)
  IN Return(d, Page([i \in 1..Len(page) |->
                       [product |-> d.products[page[i].productId],
                        quantity |-> page[i].quantity]],
                    Len(d.cart.items)))

\* Query strings of the product list and of the cart list, after validation
\* and defaulting.
ProductQueries ==
  [name : {Absent, "SLEEK"}, color : {Absent, "RED"}, size : {Absent, "M"},
   price : {NoPrice, 0, 1500}, offset : 0..MaxOffset, limit : 1..MaxLimit]
CartQueries == [offset : 0..MaxOffset, limit : 1..MaxLimit]

\* A list request served, with its query.
ListRequest(op, query, reply) ==
  [op |-> op, productId |-> NoId, quantity |-> 0, reply |-> reply, query |-> query]

ServeList(op, query, r) ==
  /\ db' = r.db
  /\ last' = ListRequest(op, query, r.reply)
  /\ pre' = db
  /\ UNCHANGED <<loaded, inflight>>

ProductList ==
  \E query \in ProductQueries :
    LET r == productList(db, query)
    IN /\ ServeList("productList", query, r)
       /\ UNCHANGED sold

CartList ==
  \E query \in CartQueries :
    LET r == cartList(db, query)
    IN /\ ServeList("cartList", query, r)
       /\ UNCHANGED sold

\* An add of one unit of a product of the larger catalog.
ListAdd ==
  \E productId \in ListProducts :
    /\ Serve("add", productId, 1, validated(db, 1, add(db, productId, 1)))
    /\ UNCHANGED sold

\* The larger catalog, with one unit of each product of the smaller catalog
\* in stock and the further product out of stock, and an empty cart.
InitList ==
  /\ loaded = [p \in ListProducts |-> IF p \in Products THEN 1 ELSE 0]
  /\ db = [products |-> [p \in ListProducts |-> product(p, loaded[p])],
           cart |-> [items |-> << >>]]
  /\ sold = [p \in ListProducts |-> 0]
  /\ last = Request("listen", NoId, 0, Ok(""))
  /\ pre = db
  /\ inflight = [c \in Conns |-> Idle]

NextList == ProductList \/ CartList \/ ListAdd

SpecList == InitList /\ [][NextList]_vars

\* ------------------------------------------------------------------ claims
\* The last request was op, for a product of the catalog, with a body that
\* passed validation.
Served(op) ==
  /\ last.op = op
  /\ last.productId \in Products
  /\ last.reply.message # "body/quantity must be >= 1"

Failed(msg) == last.reply.statusCode = 400 /\ last.reply.message = msg
Succeeded == last.reply.statusCode = 200

\* C1: after any sequence of add, remove, update and checkout requests,
\* successful or failing, every product's stock is an integer >= 0.
C1_StockNonNegative == \A p \in Products : Stock(db, p) \in Nat

\* An add has just taken the last units of a product.
C1_Witness ==
  /\ Served("add") /\ Succeeded
  /\ Stock(db, last.productId) = 0
  /\ Stock(pre, last.productId) > 0

\* C2 as stated: in every reachable state, stock plus the quantity of the
\* product's cart line equals the stock the product was loaded with.
C2_StockPlusHeldIsLoaded ==
  \A p \in Products : Stock(db, p) + Held(db.cart.items, p) = loaded[p]

\* C2 amended: stock plus the quantity of the product's cart line equals the
\* stock the product was loaded with minus the units of it that successful
\* checkouts have cleared from the cart.
C2_StockPlusHeldIsLoadedLessSold ==
  \A p \in Products : Stock(db, p) + Held(db.cart.items, p) = loaded[p] - sold[p]

\* A product has been checked out, added again, and a line just removed.
C2_Witness ==
  /\ Served("remove") /\ Succeeded
  /\ \E p \in Products : sold[p] > 0 /\ Held(db.cart.items, p) > 0

\* C3 as stated: add(id, q) with q >= 1 on a product of the catalog fails with
\* "Insufficient stock" exactly when stock < q, with or without a line for
\* the product; otherwise it succeeds, takes q from the stock and makes the
\* line's quantity existingQty + q.  From stock 5 and no line, add(X,3) then
\* add(X,2) leave stock 0 and line {X,5}, and add(X,1) then fails.
C3_AddFailsIffStockBelowQuantity ==
  Served("add") =>
    LET p == last.productId
        q == last.quantity
    IN IF Stock(pre, p) < q
       THEN Failed("Insufficient stock") /\ db = pre
       ELSE /\ Succeeded
            /\ Stock(db, p) = Stock(pre, p) - q
            /\ Held(db.cart.items, p) = Held(pre.cart.items, p) + q

\* C4 as stated: whenever add(id, q) has succeeded, a remove(id) right after
\* it leaves the stock at its value before the add and no line for id.
C4_RemoveAfterAddRestoresStock ==
  (Served("add") /\ Succeeded) =>
    LET p == last.productId
        r == remove(db, p)
    IN /\ Stock(r.db, p) = Stock(pre, p)
       /\ findIndex(r.db.cart.items, p) = 0

\* C4 amended: whenever add(id, q) has succeeded, a remove(id) right after it
\* succeeds, leaves no line for id, and leaves the stock at its value before
\* the add plus the quantity the line for id had before the add (0 if none).
C4_RemoveAfterAddRestoresStockAndLine ==
  (Served("add") /\ Succeeded) =>
    LET p == last.productId
        r == remove(db, p)
    IN /\ r.reply = Ok("Item removed from cart")
       /\ Stock(r.db, p) = Stock(pre, p) + Held(pre.cart.items, p)
       /\ findIndex(r.db.cart.items, p) = 0

\* An add has just grown a line that was already in the cart.
C4_Witness ==
  /\ Served("add") /\ Succeeded
  /\ Held(pre.cart.items, last.productId) > 0

\* Stock and cart agree: what a product has lost since it was loaded is
\* what the cart holds of it plus what checkouts have cleared.
Coupled ==
  \A p \in Products : Stock(db, p) + Held(db.cart.items, p) = loaded[p] - sold[p]

AllIdle == \A c \in Conns : inflight[c].pc = "idle"

\* What the last request's handler gives when run in one step on store pre.
AtOnce(uuid) ==
  CASE last.op = "add" -> add(pre, last.productId, last.quantity)
    [] last.op = "remove" -> remove(pre, last.productId)
    [] last.op = "update" -> update(pre, last.productId, last.quantity)
    [] last.op = "checkout" -> checkout(pre, uuid)

\* C5: every cart operation is atomic under any interleaving of concurrent
\* requests.  A handler that is about to run its first statement never finds
\* stock changed without the matching cart change; once a handler has
\* finished, store and reply are exactly what the whole handler gives when
\* applied in one step to the store it found; a request answered with an
\* error has left the store as it found it.
C5_HandlersAreAtomic ==
  /\ \A c \in Conns : inflight[c].pc \in {EntryPc[op] : op \in DOMAIN EntryPc} => Coupled
  /\ (AllIdle /\ last.op # "listen") =>
       \E uuid \in Uuids : AtOnce(uuid) = [db |-> db, reply |-> last.reply]
  /\ (AllIdle /\ last.reply.statusCode = 400) => db = pre

\* An add is between its cart write and its stock write while the other
\* connection is idle.
C5_Witness ==
  /\ inflight["c1"].pc = "add_stock"
  /\ inflight["c2"].pc = "idle"
  /\ ~Coupled
  /\ Len(db.cart.items) = 2

\* C6: add(id, q) on a product of the catalog with q > stock fails with
\* "Insufficient stock" and leaves every stock and the whole cart as before.
C6_AddBeyondStockChangesNothing ==
  (Served("add") /\ last.quantity > Stock(pre, last.productId)) =>
    (Failed("Insufficient stock") /\ db = pre)

\* An add asked for more than the stock while the cart held two lines.
C6_Witness ==
  /\ Served("add") /\ last.quantity > Stock(pre, last.productId)
  /\ Len(pre.cart.items) = 2

\* C7: remove(id) or update(id, q) for a product of the catalog that has no
\* cart line fails with "Item not in cart" and leaves stock and cart as before.
C7_NoLineIsNotInCart ==
  ((Served("remove") \/ Served("update"))
     /\ findIndex(pre.cart.items, last.productId) = 0) =>
    (Failed("Item not in cart") /\ db = pre)

\* An update and a remove are both refused for a product without a line
\* while the cart holds a line of the other product.
C7_Witness ==
  /\ Served("update")
  /\ findIndex(pre.cart.items, last.productId) = 0
  /\ Len(pre.cart.items) = 1
  /\ remove(db, last.productId).reply.message = "Item not in cart"

\* C8: update(id, q) with q >= 1 on a product with stock s and a line of
\* quantity k fails with "Insufficient stock" exactly when s < q - k and
\* otherwise sets the stock to s - (q - k) and the line's quantity to q, so
\* an update that lowers the quantity always succeeds and returns k - q units.
\* From stock 10: add(Y,4), update(Y,2), update(Y,7) give stock 6, 8, 3 and
\* the line {Y,7}.
C8_UpdateMovesTheDifference ==
  /\ (Served("update") /\ findIndex(pre.cart.items, last.productId) # 0) =>
       LET p == last.productId
           q == last.quantity
           s == Stock(pre, p)
           k == pre.cart.items[findIndex(pre.cart.items, p)].quantity
       IN /\ IF s < q - k
             THEN Failed("Insufficient stock") /\ db = pre
             ELSE /\ Succeeded
                  /\ Stock(db, p) = s - (q - k)
                  /\ findIndex(db.cart.items, p) = findIndex(pre.cart.items, p)
                  /\ db.cart.items[findIndex(db.cart.items, p)].quantity = q
          /\ q < k => (Succeeded /\ Stock(db, p) = s + (k - q))
  /\ LET d0 == NewDb([p \in Products |-> IF p = "Y" THEN 10 ELSE 0])
         d1 == add(d0, "Y", 4).db
         d2 == update(d1, "Y", 2).db
         d3 == update(d2, "Y", 7).db
     IN /\ Stock(d1, "Y") = 6
        /\ Stock(d2, "Y") = 8 /\ d2.cart.items = <<[productId |-> "Y", quantity |-> 2]>>
        /\ Stock(d3, "Y") = 3 /\ d3.cart.items = <<[productId |-> "Y", quantity |-> 7]>>

\* An update has just lowered a line's quantity while the stock was 0.
C8_Witness ==
  /\ Served("update") /\ Succeeded
  /\ Stock(pre, last.productId) = 0
  /\ last.quantity < Held(pre.cart.items, last.productId)

\* C9: checkout on a cart with at least one line succeeds, leaves the cart
\* with no line, and leaves every product's stock as it was before.
C9_CheckoutClearsCartKeepsStock ==
  (last.op = "checkout" /\ Len(pre.cart.items) >= 1) =>
    /\ Succeeded
    /\ last.reply.orderId \in Uuids
    /\ db.cart.items = << >>
    /\ \A p \in Products : Stock(db, p) = Stock(pre, p)

\* A checkout has just cleared a cart that held a line of one product only.
C9_Witness ==
  /\ last.op = "checkout" /\ Succeeded
  /\ Len(pre.cart.items) = 1
  /\ \E p \in Products : Stock(pre, p) > 0 /\ Held(pre.cart.items, p) = 0

\* C10: checkout on a cart with no line fails with "Cart is empty", gives no
\* orderId and leaves stock and cart as before; so does a second checkout
\* right after a successful one.
C10_EmptyCartCheckoutFails ==
  /\ (last.op = "checkout" /\ Len(pre.cart.items) = 0) =>
       /\ Failed("Cart is empty")
       /\ last.reply.orderId = NoOrderId
       /\ db = pre
  /\ (last.op = "checkout" /\ Succeeded) =>
       \A uuid \in Uuids : checkout(db, uuid) = Throw(db, "Cart is empty")

\* A checkout has just been refused in the store a successful checkout left.
C10_Witness ==
  /\ last.op = "checkout" /\ Failed("Cart is empty")
  /\ \E p \in Products : sold[p] > 0
  /\ \A p \in Products : Stock(db, p) + sold[p] = loaded[p]

\* Number of cart lines of product p.
Lines(items, p) == Cardinality({i \in 1..Len(items) : items[i].productId = p})

\* C11: in every reachable state the cart holds at most one line per product
\* id, however often add and update were called for it and in whatever order
\* relative to remove and checkout.
C11_OneLinePerProduct ==
  \A p \in RequestIds : Lines(db.cart.items, p) <= 1

\* An add has just grown the line of a product the cart already held, in a
\* cart of two lines.
C11_Witness ==
  /\ Served("add") /\ Succeeded
  /\ Lines(pre.cart.items, last.productId) = 1
  /\ Len(db.cart.items) = 2

\* C12: in every reachable state every cart line has an integer quantity
\* >= 1: an add or update request with quantity < 1 is rejected as a
\* validation error before its handler runs, changing nothing, and no
\* sequence of accepted requests leaves a line with quantity 0 or less.
C12_LineQuantityPositive ==
  /\ \A i \in 1..Len(db.cart.items) :
       db.cart.items[i].quantity \in Nat /\ db.cart.items[i].quantity >= 1
  /\ (last.op \in {"add", "update"} /\ last.quantity < 1) =>
       (Failed("body/quantity must be >= 1") /\ db = pre)

\* An update to quantity 0 has just been rejected for a product with a line.
C12_Witness ==
  /\ last.op = "update" /\ last.quantity = 0
  /\ last.productId \in Products
  /\ Held(pre.cart.items, last.productId) >= 1
  /\ Held(db.cart.items, last.productId) >= 1

\* C13: update(id, q) where q is the current quantity of id's line always
\* succeeds, even at stock 0, and leaves the stock, the line's quantity and
\* the rest of the cart unchanged.
C13_UpdateToSameQuantityIsNoOp ==
  (/\ Served("update")
   /\ findIndex(pre.cart.items, last.productId) # 0
   /\ pre.cart.items[findIndex(pre.cart.items, last.productId)].quantity = last.quantity) =>
    (last.reply = Ok("Cart updated") /\ db = pre)

\* An update to the line's own quantity has just been served at stock 0,
\* with a line of the other product in the cart.
C13_Witness ==
  /\ Served("update")
  /\ Held(pre.cart.items, last.productId) = last.quantity
  /\ Stock(pre, last.productId) = 0
  /\ Len(pre.cart.items) = 2

\* Stock of p plus the quantity the cart holds of p, in store d.
StockPlusHeld(d, p) == Stock(d, p) + Held(d.cart.items, p)

\* C14: units consumed by checkout never return.  Over every step, for each
\* product, stock + held never grows: add, remove and update, successful or
\* failing, leave it unchanged, and a successful checkout lowers it by exactly
\* the held quantity; so a product's stock never exceeds its loaded stock.
C14_StockPlusHeldNeverGrows ==
  \A p \in Products :
    /\ StockPlusHeld(db, p) <= StockPlusHeld(pre, p)
    /\ last.op \in {"add", "remove", "update"} =>
         StockPlusHeld(db, p) = StockPlusHeld(pre, p)
    /\ (last.op = "checkout" /\ Succeeded) =>
         StockPlusHeld(db, p) = StockPlusHeld(pre, p) - Held(pre.cart.items, p)
    /\ (last.op = "checkout" /\ ~Succeeded) => StockPlusHeld(db, p) = StockPlusHeld(pre, p)
    /\ Stock(db, p) <= loaded[p]

\* A checkout has just consumed the held units of a product that an earlier
\* checkout had already consumed units of.
C14_Witness ==
  /\ last.op = "checkout" /\ Succeeded
  /\ \E p \in Products :
       /\ Held(pre.cart.items, p) > 0
       /\ sold[p] > Held(pre.cart.items, p)

\* C17: in every reachable state every cart line's productId is the id of a
\* product of the catalog, so the lookups that remove, the cart list and
\* checkout make without a null test always find a product.
C17_LinesReferToProducts ==
  \A i \in 1..Len(db.cart.items) : db.cart.items[i].productId \in DOMAIN db.products

\* An add for an id that is in no catalog has just been refused while the
\* cart held two lines.
C17_Witness ==
  /\ last.op = "add" /\ last.productId = UnknownId
  /\ Failed("Product not found")
  /\ Len(db.cart.items) = 2

\* The cart lines of products other than p, in cart order.
Others(items, p) == SelectSeq(items, LAMBDA l : l.productId # p)

Listed(op) == last.op = op /\ last.reply.statusCode = 200

\* C15: for the product list and the cart list, for every offset >= 0 and
\* limit >= 1, the page is the contiguous slice of the (filtered) sequence
\* that starts at offset, its length is min(limit, max(0, total - offset)),
\* and total is the full (filtered) count whatever offset and limit are; an
\* offset at or beyond the end gives an empty page with the right total.
\* Listing changes no state.
C15_PagesAreSlices ==
  /\ last.op = "productList" =>
       LET q == last.query
           r == last.reply
           F == filtered(pre, q)
       IN /\ r.statusCode = 200
          /\ r.total = Len(F)
          /\ (~truthyText(q.name) /\ ~truthyText(q.color) /\ ~truthyText(q.size)
                /\ ~truthyNumber(q.price)) => r.total = Cardinality(DOMAIN pre.products)
          /\ Len(r.items) = Min(q.limit, Max(0, r.total - q.offset))
          /\ \A i \in 1..Len(r.items) : r.items[i] = F[q.offset + i]
          /\ q.offset >= r.total => r.items = << >>
          /\ \A o \in 0..MaxOffset, l \in 1..MaxLimit :
               productList(pre, [q EXCEPT !.offset = o, !.limit = l]).reply.total = r.total
          /\ db = pre
  /\ last.op = "cartList" =>
       LET q == last.query
           r == last.reply
           F == pre.cart.items
       IN /\ r.statusCode = 200
          /\ r.total = Len(F)
          /\ Len(r.items) = Min(q.limit, Max(0, r.total - q.offset))
          /\ \A i \in 1..Len(r.items) :
               r.items[i] = [product |-> pre.products[F[q.offset + i].productId],
                             quantity |-> F[q.offset + i].quantity]
          /\ q.offset >= r.total => r.items = << >>
          /\ \A o \in 0..MaxOffset, l \in 1..MaxLimit :
               cartList(pre, [offset |-> o, limit |-> l]).reply.total = r.total
          /\ db = pre

\* A product list has just returned the last, partly filled page of a
\* filtered result, with lines in the cart.
C15_Witness ==
  /\ Listed("productList")
  /\ last.query.color = "RED"
  /\ last.reply.total = 2
  /\ last.query.offset = 1 /\ last.query.limit = 2
  /\ Len(last.reply.items) = 1
  /\ Len(db.cart.items) = 2

\* Product p passes every filter that query supplies.
Matches(p, query) ==
  /\ query.name # Absent => includes(lowered[p.name], lowered[query.name])
  /\ query.color # Absent => lowered[p.color] = lowered[query.color]
  /\ query.size # Absent => p.size = query.size
  /\ query.price # NoPrice => p.price <= query.price

\* C16 as stated: the product list returns exactly the products that pass
\* every supplied filter: for any supplied price bound p >= 0, p = 0 included,
\* no returned product has price > p and total counts only the products with
\* price <= p; every supplied name, color and size filter is applied, and a
\* filter that is not supplied constrains nothing.
C16_ListAppliesEverySuppliedFilter ==
  last.op = "productList" =>
    LET q == last.query
        r == last.reply
        M == SelectSeq(values(pre), LAMBDA p : Matches(p, q))
    IN /\ r.total = Len(M)
       /\ \A i \in 1..Len(r.items) : Matches(r.items[i], q)
       /\ r.items = slice(M, q.offset, q.offset + q.limit)

====
